---- MODULE Spec2Model ----
(***************************************************************************)
(* State-machine model of openmmml/models/macepotential.py:                *)
(* MACEPotentialImpl.addForces (configuration) and the MACEForce module it *)
(* builds (forward / _getNeighborPairs).                                   *)
(*                                                                         *)
(* Numbers.  Lengths are exact fixed-point integers: the host's positions  *)
(* and box vectors are multiples of 0.1 nm, so after the multiplication by *)
(* lengthScale the model works in multiples of 0.01 nm.  Energies are      *)
(* integers; energyScale is 96.4853 held in units of 1e-4.  Rounding of    *)
(* IEEE arithmetic is outside the model: every equality below is the exact *)
(* equality that the spec states "within floating-point tolerance".        *)
(*                                                                         *)
(* Optional values are sequences of length 0 (None) or 1.  Atom indices    *)
(* are 0-based as in the source; rows of tensors are 1-based sequences.    *)
(***************************************************************************)
EXTENDS Integers, Sequences, FiniteSets, TLC

VARIABLES
    impl,       \* MACEPotentialImpl: name (split at "-"), modelPath
    topology,   \* host topology: atomic numbers, periodic box declared?
    system,     \* host system: its list of forces
    args,       \* the options createSystem hands to addForces
    files,      \* names of the artifacts written to disk
    state,      \* "Unconfigured" | "Configured" | "ConfigFailed"
    error,      \* what the last operation raised (None: nothing)
    maceForce,  \* the MACEForce module (None before configuration)
    call,       \* arguments of the most recent forward call (None: no call)
    ret,        \* value returned by the most recent forward call
    frame       \* locals of the most recent forward / _getNeighborPairs

vars == <<impl, topology, system, args, files, state, error, maceForce, call, ret, frame>>

\* Number of atoms of the host topology.
NumAtoms == 3

None == <<>>
Some(x) == <<x>>
IsNone(o) == o = <<>>
Get(o) == o[1]

-----------------------------------------------------------------------------
(* Sequences and small integer vectors                                     *)

Range(s) == {s[i] : i \in 1..Len(s)}

\* All sequences over S of length at most n.
SeqsUpTo(S, n) == UNION {[1..k -> S] : k \in 0..n}

Injective(s) == \A i, j \in 1..Len(s) : s[i] = s[j] => i = j

RECURSIVE Insert(_, _)
Insert(x, s) ==
    IF s = <<>> THEN <<x>>
    ELSE IF x <= s[1] THEN <<x>> \o s
    ELSE <<s[1]>> \o Insert(x, Tail(s))

\* Python sorted() on a list of ints.
RECURSIVE sorted(_)
sorted(s) == IF s = <<>> THEN <<>> ELSE Insert(s[1], sorted(Tail(s)))

Abs(n) == IF n < 0 THEN -n ELSE n

RECURSIVE Gcd(_, _)
Gcd(a, b) == IF b = 0 THEN Abs(a) ELSE Gcd(b, a % Abs(b))

VAdd(u, v) == <<u[1] + v[1], u[2] + v[2], u[3] + v[3]>>
VSub(u, v) == <<u[1] - v[1], u[2] - v[2], u[3] - v[3]>>
VNeg(u) == <<-u[1], -u[2], -u[3]>>
VScale(k, u) == <<k * u[1], k * u[2], k * u[3]>>
VDivExact(u, d) == <<u[1] \div d, u[2] \div d, u[3] \div d>>
Norm2(u) == u[1] * u[1] + u[2] * u[2] + u[3] * u[3]
Zero3 == <<0, 0, 0>>

\* Row vector times 3x3 matrix (one row of torch.mm).
VecMat(v, m) ==
    << v[1] * m[1][1] + v[2] * m[2][1] + v[3] * m[3][1],
       v[1] * m[1][2] + v[2] * m[2][2] + v[3] * m[3][2],
       v[1] * m[1][3] + v[2] * m[2][3] + v[3] * m[3][3] >>

Det(m) ==
      m[1][1] * (m[2][2] * m[3][3] - m[2][3] * m[3][2])
    - m[1][2] * (m[2][1] * m[3][3] - m[2][3] * m[3][1])
    + m[1][3] * (m[2][1] * m[3][2] - m[2][2] * m[3][1])

\* Adjugate: m * Adj(m) = Det(m) * I.
Adj(m) ==
    << << m[2][2] * m[3][3] - m[2][3] * m[3][2],
          m[1][3] * m[3][2] - m[1][2] * m[3][3],
          m[1][2] * m[2][3] - m[1][3] * m[2][2] >>,
       << m[2][3] * m[3][1] - m[2][1] * m[3][3],
          m[1][1] * m[3][3] - m[1][3] * m[3][1],
          m[1][3] * m[2][1] - m[1][1] * m[2][3] >>,
       << m[2][1] * m[3][2] - m[2][2] * m[3][1],
          m[1][2] * m[3][1] - m[1][1] * m[3][2],
          m[1][1] * m[2][2] - m[1][2] * m[2][1] >> >>

MGcd(m) ==
    LET g(r) == Gcd(Gcd(r[1], r[2]), r[3])
    IN  Gcd(Gcd(g(m[1]), g(m[2])), g(m[3]))

\* torch.linalg.inv(cell) as an exact rational matrix num / den, den > 0,
\* in lowest terms.  The cell is non-singular.
linalg_inv(cell) ==
    LET d == Det(cell)
        a == Adj(cell)
        g == Gcd(MGcd(a), d)
        s == IF d < 0 THEN -1 ELSE 1
    IN  [num |-> << VDivExact(VScale(s, a[1]), g),
                    VDivExact(VScale(s, a[2]), g),
                    VDivExact(VScale(s, a[3]), g) >>,
         den |-> Abs(d) \div g]

\* A tensor of floating-point values: its dtype and its rows.
Tensor(dtype, data) == [dtype |-> dtype, data |-> data]

\* Tensor.to(dtype): the values of the model are exactly representable in
\* both precisions, so the conversion changes the dtype only.
To(t, dtype) == [t EXCEPT !.dtype = dtype]

\* tensor * scalar, row by row.
Times(t, k) == [t EXCEPT !.data = [i \in 1..Len(t.data) |-> VScale(k, t.data[i])]]

-----------------------------------------------------------------------------
(* Collaborators outside the file: the loaded MACE model                   *)

\* A model name split at "-" (str.split("-")).
NameSmall  == <<"mace", "off23", "small">>
NameMedium == <<"mace", "off23", "medium">>
NameLarge  == <<"mace", "off23", "large">>
NameHuge   == <<"mace", "off23", "huge">>
NameLocal  == <<"mace">>
NameOther  == <<"ani2x">>

\* mace_off(model=size, return_raw_model=True): the MACE-OFF23 models.
\* r_max is in units of 0.01 nm (0.1 Angstrom).
mace_off(size) ==
    [ atomic_numbers |-> <<1, 6, 8>>,
      r_max |-> IF size = "small" THEN 45 ELSE 50,
      dtype |-> "float64",
      heads |-> {"energy", "interaction_energy"} ]

\* torch.load(modelPath): the locally trained models of the model.  The
\* second one returns no interaction energy.
torch_load(modelPath) ==
    IF modelPath = "MACE.model"
    THEN [ atomic_numbers |-> <<1, 8>>, r_max |-> 100, dtype |-> "float32",
           heads |-> {"energy", "interaction_energy"} ]
    ELSE [ atomic_numbers |-> <<1, 6, 8>>, r_max |-> 100, dtype |-> "float64",
           heads |-> {"energy"} ]

\* Isolated-atom energy of a species, by its column in the species table.
E0(col) == 7 * col

\* The model applied to its input dictionary: a deterministic function of
\* the dictionary (the graph) alone.  The interaction energy sums a term per
\* edge over the edge vector positions[receiver] - positions[sender] + shift;
\* the energy adds the isolated-atom energies.  A head the model lacks, and
\* the forces when compute_force is off, are None.
ModelCall(model, inputDict, compute_force) ==
    LET Col(row) == CHOOSE c \in 1..Len(row) : row[c] = 1
        Energies(pos, ei, sh, na) ==
            LET RECURSIVE EdgeSum(_)
                EdgeSum(k) ==
                    IF k = 0 THEN 0
                    ELSE EdgeSum(k - 1) + 1
                         + (Norm2(VAdd(VSub(pos[ei[2][k] + 1], pos[ei[1][k] + 1]), sh[k])) % 11)
                RECURSIVE NodeSum(_)
                NodeSum(k) == IF k = 0 THEN 0 ELSE NodeSum(k - 1) + E0(Col(na[k]))
            IN  [inter |-> EdgeSum(Len(ei[1])), self |-> NodeSum(Len(na))]
        Out(e) ==
            [ interaction_energy |->
                  IF "interaction_energy" \in model.heads THEN Some(e.inter) ELSE None,
              energy |->
                  IF "energy" \in model.heads THEN Some(e.inter + e.self) ELSE None,
              forces |-> IF compute_force THEN Some("forces") ELSE None ]
    IN  Out(Energies(Get(inputDict.positions).data, Get(inputDict.edge_index),
                     Get(inputDict.shifts).data, inputDict.node_attrs.data))

-----------------------------------------------------------------------------
(* MACEPotentialImpl.addForces                                             *)

energyScale == 964853   \* 96.4853 in units of 1e-4
lengthScale == 10

\* name.startswith("mace-off23")
IsMaceOff23(name) == Len(name) >= 2 /\ name[1] = "mace" /\ name[2] = "off23"

\* What loading the model raises (None: the model loads).
LoadError(im) ==
    IF IsMaceOff23(im.name)
    THEN IF im.name[Len(im.name)] \in {"small", "medium", "large"}
         THEN None ELSE Some("UnsupportedModel")
    ELSE IF im.name = NameLocal
    THEN IF ~IsNone(im.modelPath) THEN None ELSE Some("MissingModelSource")
    ELSE Some("UnsupportedModel")

\* The model the name selects.
LoadModel(im) ==
    IF IsMaceOff23(im.name) THEN mace_off(im.name[Len(im.name)])
    ELSE torch_load(Get(im.modelPath))

\* atomicNumbers of the ML region: the atoms in the order of `atoms`.
IncludedAtomicNumbers(top, atoms) ==
    IF IsNone(atoms) THEN top.atoms
    ELSE [k \in 1..Len(Get(atoms)) |-> top.atoms[Get(atoms)[k] + 1]]

\* Mutant: an unknown precision falls back to the model's dtype.
PrecisionDtype_Lenient(precision, modelDefaultDtype) ==
    IF IsNone(precision) THEN Some(modelDefaultDtype)
    ELSE IF Get(precision) = "single" THEN Some("float32")
    ELSE IF Get(precision) = "double" THEN Some("float64")
    ELSE Some(modelDefaultDtype)

\* The dtype the precision option selects (None: unsupported option).
PrecisionDtype(precision, modelDefaultDtype) ==
    IF IsNone(precision) THEN Some(modelDefaultDtype)
    ELSE IF Get(precision) = "single" THEN Some("float32")
    ELSE IF Get(precision) = "double" THEN Some("float64")
    ELSE None

\* atomic_numbers_to_indices: the 0-based column of each atomic number in
\* the species table; defined when every number is in the table.
InTable(atomicNumbers, zTable) == Range(atomicNumbers) \subseteq Range(zTable)

atomic_numbers_to_indices(atomicNumbers, zTable) ==
    [k \in 1..Len(atomicNumbers) |->
        (CHOOSE c \in 1..Len(zTable) : zTable[c] = atomicNumbers[k]) - 1]

to_one_hot(indices, num_classes) ==
    [k \in 1..Len(indices) |->
        [c \in 1..num_classes |-> IF c - 1 = indices[k] THEN 1 ELSE 0]]

\* Mutant: the default the docstring names.
DefaultReturnEnergyType_Doc == "interaction_energy"

\* The default of the parameter returnEnergyType of addForces.
DefaultReturnEnergyType == "energy"

\* The value of the parameter: the caller's, or the default.
ReturnEnergyTypeOf(a) ==
    IF IsNone(a.returnEnergyType) THEN DefaultReturnEnergyType
    ELSE Get(a.returnEnergyType)

\* The first error addForces raises, in the order of its checks.
ConfigError(im, top, a) ==
    IF ReturnEnergyTypeOf(a) \notin {"interaction_energy", "energy"}
    THEN Some("UnsupportedEnergyKind")
    ELSE IF ~IsNone(LoadError(im)) THEN LoadError(im)
    ELSE IF IsNone(PrecisionDtype(a.precision, LoadModel(im).dtype))
    THEN Some("UnsupportedPrecision")
    ELSE IF ~InTable(IncludedAtomicNumbers(top, a.atoms), LoadModel(im).atomic_numbers)
    THEN Some("UnknownSpecies")
    ELSE None

\* self.indices of MACEForce.__init__.
MACEForceIndices(atoms) == IF IsNone(atoms) THEN None ELSE Some(sorted(Get(atoms)))

\* The pbc entry of the default input dict.
PbcFlags(periodic) == <<periodic, periodic, periodic>>

\* MACEForce.__init__
MACEForceInit(model, nodeAttrs, atoms, periodic, dtype, returnEnergyType) ==
    [ dtype |-> dtype,
      model |-> [model EXCEPT !.dtype = dtype],
      energyScale |-> energyScale,
      lengthScale |-> lengthScale,
      returnEnergyType |-> returnEnergyType,
      indices |-> MACEForceIndices(atoms),
      inputDict |->
        [ ptr |-> <<0, Len(nodeAttrs)>>,
          node_attrs |-> Tensor(dtype, nodeAttrs),
          batch |-> [k \in 1..Len(nodeAttrs) |-> 0],
          pbc |-> PbcFlags(periodic),
          positions |-> None,
          edge_index |-> None,
          shifts |-> None ] ]

\* topology.getPeriodicBoxVectors() is not None or
\* system.usesPeriodicBoundaryConditions()
IsPeriodic(top, sys) == top.box \/ \E k \in 1..Len(sys.forces) : sys.forces[k].pbc

TorchForce(filename, forceGroup, periodic) ==
    [kind |-> "TorchForce", file |-> filename, group |-> forceGroup, pbc |-> periodic]

NoFrame == [ran |-> FALSE]

addForces ==
    /\ state = "Unconfigured"
    /\ LET err == ConfigError(impl, topology, args)
       IN  IF ~IsNone(err)
           THEN /\ state' = "ConfigFailed"
                /\ error' = err
                /\ UNCHANGED <<system, files, maceForce>>
           ELSE LET model == LoadModel(impl)
                    atomicNumbers == IncludedAtomicNumbers(topology, args.atoms)
                    dtype == Get(PrecisionDtype(args.precision, model.dtype))
                    zTable == model.atomic_numbers
                    nodeAttrs == to_one_hot(
                        atomic_numbers_to_indices(atomicNumbers, zTable), Len(zTable))
                    isPeriodic == IsPeriodic(topology, system)
                IN  /\ maceForce' = Some(MACEForceInit(model, nodeAttrs, args.atoms,
                                         isPeriodic, dtype, ReturnEnergyTypeOf(args)))
                    /\ files' = files \cup {args.filename}
                    /\ system' = [system EXCEPT !.forces =
                           Append(@, TorchForce(args.filename, args.forceGroup, isPeriodic))]
                    /\ state' = "Configured"
                    /\ error' = None
    /\ UNCHANGED <<impl, topology, args, call, ret, frame>>

-----------------------------------------------------------------------------
(* NeighborFinder: NNPOps.neighbors.getNeighborPairs                       *)

\* x \div d rounds towards minus infinity for d > 0.
Floor(x, d) == x \div d

\* Minimum-image wrapping of one displacement: to fractional coordinates
\* (inv is the inverse of the cell), each wrapped to [-1/2, 1/2), and back
\* to Cartesian.
Wrap(delta, cell, inv) ==
    LET f == VecMat(delta, inv.num)
        n == << Floor(2 * f[1] + inv.den, 2 * inv.den),
                Floor(2 * f[2] + inv.den, 2 * inv.den),
                Floor(2 * f[3] + inv.den, 2 * inv.den) >>
    IN  VSub(delta, VecMat(n, cell))

\* The candidate pairs of n atoms, one slot each: (1,0), (2,0), (2,1), ...
RECURSIVE CandidatePairs(_)
CandidatePairs(n) ==
    IF n <= 1 THEN <<>>
    ELSE CandidatePairs(n - 1) \o [c \in 1..(n - 1) |-> <<n - 1, c - 1>>]

NaN == <<>>

\* The displacement positions[i] - positions[j] of every candidate pair
\* (i, j), wrapped when a cell is given.
CandidateDeltas(positions, cand, cell) ==
    IF IsNone(cell)
    THEN [k \in 1..Len(cand) |->
             VSub(positions[cand[k][1] + 1], positions[cand[k][2] + 1])]
    ELSE LET WrapAll(inv) ==
                 [k \in 1..Len(cand) |->
                     Wrap(VSub(positions[cand[k][1] + 1], positions[cand[k][2] + 1]),
                          Get(cell), inv)]
         IN  WrapAll(linalg_inv(Get(cell)))

\* The padded output: a slot whose pair is farther than the cutoff holds
\* -1, -1 and NaN.
PadPairs(cand, deltas, cutoff) ==
    [ neighbors |->
        << [k \in 1..Len(cand) |->
               IF Norm2(deltas[k]) <= cutoff * cutoff THEN cand[k][1] ELSE -1],
           [k \in 1..Len(cand) |->
               IF Norm2(deltas[k]) <= cutoff * cutoff THEN cand[k][2] ELSE -1] >>,
      deltas |-> [k \in 1..Len(cand) |->
               IF Norm2(deltas[k]) <= cutoff * cutoff THEN deltas[k] ELSE NaN] ]

\* getNeighborPairs(positions, cutoff, -1, cell): the padded pair list
\* (2 rows, one column per candidate pair) and the wrapped displacement
\* positions[neighbors[0]] - positions[neighbors[1]] of each retained pair.
getNeighborPairs(positions, cutoff, cell) ==
    PadPairs(CandidatePairs(Len(positions)),
             CandidateDeltas(positions, CandidatePairs(Len(positions)), cell),
             cutoff)

-----------------------------------------------------------------------------
(* MACEForce._getNeighborPairs                                             *)

\* Mutant: mask = neighbors > 0, which drops atom 0.
Mask_Positive(neighbors) ==
    [r \in 1..2 |-> [k \in 1..Len(neighbors[r]) |-> neighbors[r][k] > 0]]

\* mask = neighbors >= 0
Mask(neighbors) ==
    [r \in 1..2 |-> [k \in 1..Len(neighbors[r]) |-> neighbors[r][k] >= 0]]

\* The entries of row s at which the mask row m is true, in order.
RECURSIVE Masked(_, _)
Masked(s, m) ==
    IF s = <<>> THEN <<>>
    ELSE (IF m[1] THEN <<s[1]>> ELSE <<>>) \o Masked(Tail(s), Tail(m))

\* neighbors[mask].view(2, -1): the selected entries, row-major, cut in two rows.
Filtered(neighbors, mask) ==
    LET flat == Masked(neighbors[1], mask[1]) \o Masked(neighbors[2], mask[2])
        half == Len(flat) \div 2
    IN  << SubSeq(flat, 1, half), SubSeq(flat, half + 1, 2 * half) >>

\* wrappedDeltas[mask[0], :]
FilteredDeltas(wrappedDeltas, mask) == Masked(wrappedDeltas, mask[1])

\* Mutant: the pairs repeated without the flip.
EdgeIndex_NoFlip(neighbors) ==
    << neighbors[1] \o neighbors[1], neighbors[2] \o neighbors[2] >>

\* torch.hstack((neighbors, neighbors.flip(0)))
EdgeIndex(neighbors) ==
    << neighbors[1] \o neighbors[2], neighbors[2] \o neighbors[1] >>

\* Mutant: the difference taken the other way round.
Deltas_Reversed(positions, edgeIndex) ==
    [k \in 1..Len(edgeIndex[1]) |->
        VSub(positions[edgeIndex[2][k] + 1], positions[edgeIndex[1][k] + 1])]

\* deltas = positions[edgeIndex[0]] - positions[edgeIndex[1]]
Deltas(positions, edgeIndex) ==
    [k \in 1..Len(edgeIndex[1]) |->
        VSub(positions[edgeIndex[1][k] + 1], positions[edgeIndex[2][k] + 1])]

\* Mutant: the displacements stacked without the sign change.
StackDeltas_NoNegate(wrappedDeltas) == wrappedDeltas \o wrappedDeltas

\* torch.vstack((wrappedDeltas, -wrappedDeltas))
StackDeltas(wrappedDeltas) ==
    wrappedDeltas \o [k \in 1..Len(wrappedDeltas) |-> VNeg(wrappedDeltas[k])]

\* One row of torch.mm(deltas - wrappedDeltas, torch.linalg.inv(cell)): an
\* exact rational vector num / den.
ShiftsIdxRows(deltas, wrappedDeltas, inv) ==
    [k \in 1..Len(deltas) |->
        [num |-> VecMat(VSub(deltas[k], wrappedDeltas[k]), inv.num),
         den |-> inv.den]]

\* shiftsIdx = torch.mm(deltas - wrappedDeltas, torch.linalg.inv(cell))
ShiftsIdx(deltas, wrappedDeltas, cell) ==
    ShiftsIdxRows(deltas, wrappedDeltas, linalg_inv(cell))

\* shifts = torch.mm(shiftsIdx, cell)
Shifts(shiftsIdx, cell) ==
    [k \in 1..Len(shiftsIdx) |->
        VDivExact(VecMat(shiftsIdx[k].num, cell), shiftsIdx[k].den)]

\* Mutant: the lattice branch is taken only in a periodic system.
ShiftBranch_ByFlag(cell, pbc) == IF ~IsNone(cell) /\ pbc[1] THEN "lattice" ELSE "zeros"

\* Which branch computes the shifts: decided by the presence of the cell.
ShiftBranch(cell, pbc) == IF ~IsNone(cell) THEN "lattice" ELSE "zeros"

\* The branch `if cell is not None`: the edge displacements and the shifts.
LatticeBranch(positions, cell, edgeIndex, deltas, wrappedDeltas, shiftsIdx) ==
    [ edgeIndex |-> edgeIndex,
      shifts |-> Tensor(positions.dtype, Shifts(shiftsIdx, cell)),
      branch |-> "lattice",
      deltas |-> deltas,
      wrappedDeltas |-> wrappedDeltas,
      shiftsIdx |-> shiftsIdx ]

\* Mutant: torch.ones in place of torch.zeros.
ZerosBranch_Ones(self, edgeIndex, wrappedDeltas) ==
    [ edgeIndex |-> edgeIndex,
      shifts |-> Tensor(self.dtype, [k \in 1..Len(edgeIndex[1]) |-> <<1, 1, 1>>]),
      branch |-> "zeros",
      deltas |-> <<>>,
      wrappedDeltas |-> wrappedDeltas,
      shiftsIdx |-> <<>> ]

\* The branch `else`: zero shifts, one row per edge.
ZerosBranch(self, edgeIndex, wrappedDeltas) ==
    [ edgeIndex |-> edgeIndex,
      shifts |-> Tensor(self.dtype, [k \in 1..Len(edgeIndex[1]) |-> Zero3]),
      branch |-> "zeros",
      deltas |-> <<>>,
      wrappedDeltas |-> wrappedDeltas,
      shiftsIdx |-> <<>> ]

\* The lines after the filter, from the filtered pairs and displacements.
EdgesAndShifts(self, positions, cell, neighbors, wrappedDeltas, edgeIndex) ==
    IF ShiftBranch(cell, self.inputDict.pbc) = "lattice"
    THEN LET Stage(deltas, stacked) ==
                 LatticeBranch(positions, Get(cell).data, edgeIndex, deltas, stacked,
                               ShiftsIdx(deltas, stacked, Get(cell).data))
         IN  Stage(Deltas(positions.data, edgeIndex), StackDeltas(wrappedDeltas))
    ELSE ZerosBranch(self, edgeIndex, wrappedDeltas)

\* The filter: the retained pairs and their displacements.
FilterPairs(raw, mask) ==
    [ neighbors |-> Filtered(raw.neighbors, mask),
      wrappedDeltas |-> FilteredDeltas(raw.deltas, mask) ]

\* The method: its results (edgeIndex, shifts) and its locals.
GetNeighborPairs(self, positions, cell) ==
    LET AfterFilter(raw, f) ==
            [ raw |-> raw, neighbors |-> f.neighbors, pairDeltas |-> f.wrappedDeltas,
              out |-> EdgesAndShifts(self, positions, cell, f.neighbors,
                                     f.wrappedDeltas, EdgeIndex(f.neighbors)) ]
        AfterFinder(raw) == AfterFilter(raw, FilterPairs(raw, Mask(raw.neighbors)))
    IN  AfterFinder(getNeighborPairs(positions.data, self.model.r_max,
                        IF IsNone(cell) THEN None ELSE Some(Get(cell).data)))

-----------------------------------------------------------------------------
(* MACEForce.forward                                                       *)

\* positions[self.indices]
SelectPositions(positions, indices) ==
    IF IsNone(indices) THEN positions
    ELSE [positions EXCEPT !.data =
             [k \in 1..Len(Get(indices)) |-> positions.data[Get(indices)[k] + 1]]]

\* cell = boxvectors.to(dtype) * lengthScale, or None
CellOf(self, boxvectors) ==
    IF ~IsNone(boxvectors)
    THEN Some(Times(To(Get(boxvectors), self.dtype), self.lengthScale))
    ELSE None

\* Mutant: the positions entry is set by the first call and kept.
UpdateInputDict_KeepPositions(inputDict, positions, edgeIndex, shifts) ==
    [inputDict EXCEPT !.positions = IF IsNone(@) THEN Some(positions) ELSE @,
                      !.edge_index = Some(edgeIndex),
                      !.shifts = Some(shifts)]

\* The three per-call entries of the input dictionary.
UpdateInputDict(inputDict, positions, edgeIndex, shifts) ==
    [inputDict EXCEPT !.positions = Some(positions),
                      !.edge_index = Some(edgeIndex),
                      !.shifts = Some(shifts)]

\* The flag the model is called with.
ComputeForce == FALSE

\* The entry of the model's output that forward returns.
SelectEnergy(out, returnEnergyType) ==
    IF returnEnergyType = "energy" THEN out.energy ELSE out.interaction_energy

\* energy * self.energyScale
ScaleEnergy(self, energy) == energy * self.energyScale

\* The locals are bound with \E over a singleton so that each is computed once.
forward(positions, boxvectors) ==
    /\ state = "Configured"
    /\ \E self \in {Get(maceForce)} :
       \E pos \in {Times(To(SelectPositions(positions, self.indices), self.dtype),
                         self.lengthScale)} :
       \E cell \in {CellOf(self, boxvectors)} :
       \E np \in {GetNeighborPairs(self, pos, cell)} :
       \E dict \in {UpdateInputDict(self.inputDict, pos, np.out.edgeIndex, np.out.shifts)} :
       \E energy \in {SelectEnergy(ModelCall(self.model, dict, ComputeForce),
                                   self.returnEnergyType)} :
           /\ maceForce' = Some([self EXCEPT !.inputDict = dict])
           /\ frame' = [ ran |-> TRUE, positions |-> pos, cell |-> cell,
                         compute_force |-> ComputeForce, np |-> np ]
           /\ IF IsNone(energy)
              THEN /\ error' = Some("MissingEnergyOutput")
                   /\ ret' = None
              ELSE /\ error' = None
                   /\ ret' = Some(ScaleEnergy(self, Get(energy)))
    /\ call' = Some([positions |-> positions, boxvectors |-> boxvectors])
    /\ UNCHANGED <<impl, topology, system, args, files, state>>

-----------------------------------------------------------------------------
(* The host: what it configures and what it evaluates                      *)

\* Maximal length of an explicit atom subset.
MaxRegion == 2

Elements == <<1, 8, 6, 26>>

\* The topologies: NumAtoms atoms, elements taken in turn.
Topologies ==
    { [i \in 1..NumAtoms |-> Elements[((i - 1 + o) % Len(Elements)) + 1]] : o \in {0, 1} }

\* atoms: None, or the indices of a subset in any order.
AtomsChoices ==
    {None} \cup { Some(s) : s \in { t \in SeqsUpTo(0..(NumAtoms - 1), MaxRegion) :
                                      Len(t) >= 1 /\ Injective(t) } }

PriorForce == [kind |-> "NonbondedForce", file |-> "", group |-> 0, pbc |-> TRUE]

\* Positions of one atom the host may supply, in 0.1 nm.
PointTable ==
    << {<<0, 0, 0>>, <<-103, 4, 0>>},
       {<<0, 0, 9>>, <<0, 0, 99>>},
       {<<5, 0, 17>>, <<98, 199, -2>>},
       {<<52, 50, 50>>} >>

PointsOf(atom) == PointTable[(atom % Len(PointTable)) + 1]

HostDtype == "float32"

PositionChoices ==
    { Tensor(HostDtype, p) :
        p \in { q \in [1..NumAtoms -> UNION Range(PointTable)] :
                  \A i \in 1..NumAtoms : q[i] \in PointsOf(i - 1) } }

\* Box vectors in 0.1 nm: a cube of side 10 nm and a triclinic cell.
BoxChoices ==
    { None,
      Some(Tensor(HostDtype, << <<100, 0, 0>>, <<0, 100, 0>>, <<0, 0, 100>> >>)),
      Some(Tensor(HostDtype, << <<20, 0, 0>>, <<5, 20, 0>>, <<-5, 5, 30>> >>)) }

Unconfigured ==
    /\ files = {}
    /\ state = "Unconfigured"
    /\ error = None
    /\ maceForce = None
    /\ call = None
    /\ ret = None
    /\ frame = NoFrame

\* Configurations of the evaluation runs.
Init ==
    /\ impl \in { [name |-> NameSmall, modelPath |-> None],
                  [name |-> NameLocal, modelPath |-> Some("MACE.model")],
                  [name |-> NameLocal, modelPath |-> Some("partial.model")],
                  [name |-> NameLocal, modelPath |-> None] }
    /\ topology \in [atoms : Topologies, box : BOOLEAN]
    /\ system \in [forces : {<<>>, <<PriorForce>>}]
    /\ args \in [ atoms : AtomsChoices, forceGroup : {0}, precision : {None},
                  returnEnergyType : {None, Some("interaction_energy"), Some("forces")},
                  filename : {"macemodel.pt"} ]
    /\ Unconfigured

Evaluate == \E positions \in PositionChoices, boxvectors \in BoxChoices :
                forward(positions, boxvectors)

Next == addForces \/ Evaluate

Spec == Init /\ [][Next]_vars

\* Configurations of the configuration runs: every option, valid or not.
InitConfig ==
    /\ impl \in { [name |-> n, modelPath |-> None] :
                    n \in {NameSmall, NameMedium, NameLarge, NameHuge, NameLocal, NameOther} }
                \cup { [name |-> NameLocal, modelPath |-> Some(p)] :
                         p \in {"MACE.model", "partial.model"} }
    /\ topology \in [atoms : Topologies, box : BOOLEAN]
    /\ system \in [forces : {<<>>, <<PriorForce>>, <<[PriorForce EXCEPT !.pbc = FALSE]>>}]
    /\ args \in [ atoms : AtomsChoices, forceGroup : {0, 3},
                  precision : {None, Some("single"), Some("double"), Some("half")},
                  returnEnergyType : {None, Some("energy"), Some("interaction_energy"),
                                      Some("forces")},
                  filename : {"macemodel.pt", "other.pt"} ]
    /\ Unconfigured

NextConfig == addForces

SpecConfig == InitConfig /\ [][NextConfig]_vars

-----------------------------------------------------------------------------
(* Properties.  Names used by the formulas below.                          *)

Self == Get(maceForce)
Ran == state = "Configured" /\ frame.ran
Out == frame.np.out
Pos == frame.positions.data
EI == Out.edgeIndex
NumEdges == Len(EI[1])
Src(k) == EI[1][k]
Tgt(k) == EI[2][k]
Pairs == frame.np.neighbors
NumPairs == Len(Pairs[1])
PairDeltas == frame.np.pairDeltas
CellGiven == ~IsNone(frame.cell)
Cell == Get(frame.cell).data
ShiftRows == Out.shifts.data

IsInteger(q) == \A i \in 1..3 : q.num[i] % q.den = 0

\* The dictionary handed to the model holds what _getNeighborPairs returned.
Emitted ==
    /\ Self.inputDict.edge_index = Some(EI)
    /\ Self.inputDict.shifts = Some(Out.shifts)

\* The two-atom scenarios of the spec: atoms 0 and 1 form the region, atom 0
\* at the origin, cutoff 1.0 nm.
TwoAtoms(z) ==
    /\ Ran
    /\ Len(Pos) = 2
    /\ Pos[1] = Zero3
    /\ Pos[2] = <<0, 0, z>>
    /\ Self.model.r_max = 100

CubicTenNm ==
    /\ CellGiven
    /\ Cell = << <<1000, 0, 0>>, <<0, 1000, 0>>, <<0, 0, 1000>> >>

\* C1: with a cell supplied, for every directed edge the wrapped displacement
\* plus the shift is the displacement between the two atoms' positions taken
\* in the edge's direction (row 0 minus row 1), and the shift has integer
\* coordinates in the basis of the lattice vectors.
Thm_C1_ShiftIsLatticeTranslation ==
    (Ran /\ CellGiven) =>
        /\ Emitted
        /\ Len(ShiftRows) = NumEdges
        /\ Len(Out.wrappedDeltas) = NumEdges
        /\ Len(Out.shiftsIdx) = NumEdges
        /\ \A k \in 1..NumEdges :
              /\ VAdd(Out.wrappedDeltas[k], ShiftRows[k])
                     = VSub(Pos[Src(k) + 1], Pos[Tgt(k) + 1])
              /\ IsInteger(Out.shiftsIdx[k])
              /\ VScale(Out.shiftsIdx[k].den, ShiftRows[k])
                     = VecMat(Out.shiftsIdx[k].num, Cell)

\* A triclinic cell, and an edge whose shift is not zero.
Wit_C1 ==
    /\ Ran /\ CellGiven
    /\ Cell[2][1] # 0
    /\ \E k \in 1..NumEdges :
          /\ ShiftRows[k] # Zero3
          /\ Out.wrappedDeltas[k][1] # 0

\* C2 as stated: the true displacement of an edge is position[target] -
\* position[source], the shift is that minus the wrapped displacement, and in
\* the 10 nm cube with atoms at 0 and 9.9 nm the edge from atom 0 to atom 1
\* carries the shift +(0, 0, 10) nm.
Orig_C2_ShiftTargetMinusSource ==
    (Ran /\ CellGiven) =>
        /\ \A k \in 1..NumEdges :
              ShiftRows[k] = VSub(VSub(Pos[Tgt(k) + 1], Pos[Src(k) + 1]),
                                  Out.wrappedDeltas[k])
        /\ (TwoAtoms(990) /\ CubicTenNm) =>
              /\ NumPairs = 1
              /\ PairDeltas = << <<0, 0, -10>> >>
              /\ \A k \in 1..NumEdges :
                    (Src(k) = 0 /\ Tgt(k) = 1) => ShiftRows[k] = <<0, 0, 1000>>

\* C2 amended: the displacement is taken source minus target, row 0 of the
\* edge index minus row 1: shift = (position[source] - position[target]) -
\* wrappedDelta.  In the scenario the pair is retained with wrapped
\* displacement (0, 0, -0.1) nm, the edge from atom 1 to atom 0 carries
\* +(0, 0, 10) nm and the edge from atom 0 to atom 1 carries -(0, 0, 10) nm.
Thm_C2_ShiftSourceMinusTarget ==
    (Ran /\ CellGiven) =>
        /\ \A k \in 1..NumEdges :
              ShiftRows[k] = VSub(VSub(Pos[Src(k) + 1], Pos[Tgt(k) + 1]),
                                  Out.wrappedDeltas[k])
        /\ (TwoAtoms(990) /\ CubicTenNm) =>
              /\ NumPairs = 1
              /\ PairDeltas = << <<0, 0, -10>> >>
              /\ NumEdges = 2
              /\ \A k \in 1..NumEdges :
                    /\ (Src(k) = 1 /\ Tgt(k) = 0) => ShiftRows[k] = <<0, 0, 1000>>
                    /\ (Src(k) = 0 /\ Tgt(k) = 1) => ShiftRows[k] = <<0, 0, -1000>>
              /\ \E k \in 1..NumEdges : Src(k) = 0 /\ Tgt(k) = 1

Wit_C2 == TwoAtoms(990) /\ CubicTenNm /\ NumEdges = 2

\* The displacement the graph carries for edge k: the positions' difference
\* in the edge's direction, less the shift.
EdgeDisplacement(k) == VSub(VSub(Pos[Src(k) + 1], Pos[Tgt(k) + 1]), ShiftRows[k])

\* C3: the edge index has 2P columns, the P retained pairs followed by the
\* same pairs with rows swapped; shifts has one row per column; the edge at
\* column k carries the k-th pair's displacement d and the edge at column
\* k + P carries -d; with a cell the stacked displacement rows are those.
Thm_C3_EdgesBothDirections ==
    Ran =>
        /\ Emitted
        /\ Len(Pairs[2]) = NumPairs
        /\ Len(PairDeltas) = NumPairs
        /\ Len(EI[1]) = 2 * NumPairs
        /\ Len(EI[2]) = 2 * NumPairs
        /\ Len(ShiftRows) = 2 * NumPairs
        /\ EI = << Pairs[1] \o Pairs[2], Pairs[2] \o Pairs[1] >>
        /\ \A k \in 1..NumPairs :
              /\ Src(k + NumPairs) = Tgt(k)
              /\ Tgt(k + NumPairs) = Src(k)
              /\ EdgeDisplacement(k) = PairDeltas[k]
              /\ EdgeDisplacement(k + NumPairs) = VNeg(PairDeltas[k])
              /\ ShiftRows[k + NumPairs] = VNeg(ShiftRows[k])
        /\ CellGiven =>
              /\ Len(Out.wrappedDeltas) = 2 * NumPairs
              /\ \A k \in 1..NumPairs :
                    /\ Out.wrappedDeltas[k] = PairDeltas[k]
                    /\ Out.wrappedDeltas[k + NumPairs] = VNeg(PairDeltas[k])

\* Two retained pairs out of three candidates, with a cell.
Wit_C3 ==
    /\ Ran /\ CellGiven
    /\ NumPairs = 2
    /\ Len(frame.np.raw.deltas) = 3
    /\ NumEdges = 4
    /\ \E k \in 1..NumEdges : ShiftRows[k] # Zero3

\* C4: without a cell the shifts have one row per directed edge, every row
\* the zero vector; two atoms 0.9 nm apart give one pair, two edges and two
\* zero shifts; no pair within the cutoff gives an empty edge index and an
\* empty shifts array.
Thm_C4_NoCellZeroShifts ==
    (Ran /\ ~CellGiven) =>
        /\ Emitted
        /\ Out.branch = "zeros"
        /\ Len(ShiftRows) = NumEdges
        /\ \A k \in 1..NumEdges : ShiftRows[k] = Zero3
        /\ TwoAtoms(90) =>
              /\ NumPairs = 1
              /\ NumEdges = 2
              /\ ShiftRows = <<Zero3, Zero3>>
        /\ (\A k \in 1..Len(frame.np.raw.neighbors[1]) :
                frame.np.raw.neighbors[1][k] = -1) =>
              /\ EI = << <<>>, <<>> >>
              /\ ShiftRows = <<>>

Wit_C4 == TwoAtoms(90) /\ ~CellGiven /\ NumEdges = 2

\* A second reachable case of C4: three atoms, no pair within the cutoff.
Wit_C4_Empty ==
    /\ Ran /\ ~CellGiven
    /\ Len(Pos) = 3
    /\ NumEdges = 0

\* The displacement the finder computes for the pair (i, j) of the call.
FinderDelta(i, j) ==
    LET d == VSub(Pos[i + 1], Pos[j + 1])
    IN  IF CellGiven THEN Wrap(d, Cell, linalg_inv(Cell)) ELSE d

\* C6: after the filter no entry of the edge index is -1, all are indices of
\* active atoms, no edge joins an atom to itself, every retained pair is
\* within the cutoff, every pair within the cutoff is retained, and the
\* k-th retained displacement is the finder's for the k-th retained pair.
Thm_C6_FilterKeepsPairsAligned ==
    Ran =>
        /\ Len(Pairs[2]) = NumPairs
        /\ Len(PairDeltas) = NumPairs
        /\ \A k \in 1..NumEdges :
              /\ Src(k) \in 0..(Len(Pos) - 1)
              /\ Tgt(k) \in 0..(Len(Pos) - 1)
              /\ Src(k) # Tgt(k)
        /\ \A k \in 1..NumPairs :
              /\ Pairs[1][k] \in 0..(Len(Pos) - 1)
              /\ Pairs[2][k] \in 0..(Len(Pos) - 1)
              /\ Norm2(PairDeltas[k]) <= Self.model.r_max * Self.model.r_max
              /\ PairDeltas[k] = FinderDelta(Pairs[1][k], Pairs[2][k])
              /\ \E s \in 1..Len(frame.np.raw.deltas) :
                    /\ frame.np.raw.neighbors[1][s] = Pairs[1][k]
                    /\ frame.np.raw.neighbors[2][s] = Pairs[2][k]
                    /\ frame.np.raw.deltas[s] = PairDeltas[k]
        /\ \A i, j \in 0..(Len(Pos) - 1) :
              (j < i /\ Norm2(FinderDelta(i, j)) <= Self.model.r_max * Self.model.r_max)
                  => \E k \in 1..NumPairs : Pairs[1][k] = i /\ Pairs[2][k] = j
        /\ \A k, l \in 1..NumPairs :
              (Pairs[1][k] = Pairs[1][l] /\ Pairs[2][k] = Pairs[2][l]) => k = l

\* The padded list holds a dropped slot between two retained ones.
Wit_C6 ==
    /\ Ran
    /\ NumPairs = 2
    /\ frame.np.raw.neighbors[1][1] >= 0
    /\ frame.np.raw.neighbors[1][2] = -1
    /\ frame.np.raw.neighbors[1][3] >= 0

\* The k-th smallest element of a set of integers.
KthSmallest(S, k) == CHOOSE x \in S : Cardinality({y \in S : y < x}) = k - 1

\* The one-hot row of atomic number z over the species table.
OneHotRow(z, zTable) == [c \in 1..Len(zTable) |-> IF zTable[c] = z THEN 1 ELSE 0]

\* C5: with an atom subset configured, the graph has one node per atom of
\* the subset, and row k of the species features and row k of the selected
\* positions both belong to the k-th smallest index of the subset, whatever
\* the order the indices were supplied in.
Claim_C5_RegionRowsAscending ==
    (state = "Configured" /\ ~IsNone(args.atoms)) =>
        LET S == Range(Get(args.atoms))
            n == Cardinality(S)
        IN  /\ Self.inputDict.ptr = <<0, n>>
            /\ Len(Self.inputDict.node_attrs.data) = n
            /\ Len(Self.inputDict.batch) = n
            /\ \A k \in 1..n :
                  Self.inputDict.node_attrs.data[k]
                      = OneHotRow(topology.atoms[KthSmallest(S, k) + 1],
                                  Self.model.atomic_numbers)
            /\ frame.ran =>
                  /\ Len(Pos) = n
                  /\ \A k \in 1..n :
                        Pos[k] = VScale(lengthScale,
                                     Get(call).positions.data[KthSmallest(S, k) + 1])

\* What the code does for C5: the positions are in ascending index order,
\* the species features in the order the subset was supplied in.
Obs_C5_SpeciesInSuppliedOrder ==
    (state = "Configured" /\ ~IsNone(args.atoms)) =>
        LET a == Get(args.atoms)
            S == Range(a)
        IN  /\ Self.inputDict.ptr = <<0, Len(a)>>
            /\ \A k \in 1..Len(a) :
                  Self.inputDict.node_attrs.data[k]
                      = OneHotRow(topology.atoms[a[k] + 1], Self.model.atomic_numbers)
            /\ frame.ran =>
                  \A k \in 1..Len(a) :
                      Pos[k] = VScale(lengthScale,
                                   Get(call).positions.data[KthSmallest(S, k) + 1])

Wit_C7_Missing ==
    /\ Ran
    /\ error = Some("MissingEnergyOutput")
    /\ ret = None

\* The conditions C8 lists, read off the options.
BadKind ==
    /\ ~IsNone(args.returnEnergyType)
    /\ Get(args.returnEnergyType) \notin {"interaction_energy", "energy"}
BadPrecision ==
    /\ ~IsNone(args.precision)
    /\ Get(args.precision) \notin {"single", "double"}
MissingPath == impl.name = NameLocal /\ IsNone(impl.modelPath)
BadName == impl.name \notin {NameSmall, NameMedium, NameLarge, NameLocal}
BadSpecies ==
    /\ ~BadName
    /\ ~MissingPath
    /\ \E i \in (IF IsNone(args.atoms) THEN 0..(Len(topology.atoms) - 1)
                 ELSE Range(Get(args.atoms))) :
          topology.atoms[i + 1] \notin Range(LoadModel(impl).atomic_numbers)
BadConfig == BadKind \/ BadPrecision \/ MissingPath \/ BadName \/ BadSpecies

\* C8: addForces fails on each of the listed configuration errors, and a
\* failed addForces leaves the system's forces and the files as they were
\* and builds no module; only a valid configuration writes the artifact and
\* appends one force, with the requested group and the periodic flag of the
\* system as it was.
Thm_C8_ConfigErrorsLeaveHostUntouched ==
    [][ (state = "Unconfigured" /\ state' # "Unconfigured") =>
           /\ BadConfig => state' = "ConfigFailed"
           /\ state' = "ConfigFailed" =>
                 /\ BadConfig
                 /\ system' = system
                 /\ files' = files
                 /\ maceForce' = None
                 /\ error' \in { Some(e) : e \in {"UnsupportedEnergyKind", "UnsupportedModel",
                                    "MissingModelSource", "UnsupportedPrecision",
                                    "UnknownSpecies"} }
           /\ state' = "Configured" =>
                 /\ ~BadConfig
                 /\ files' = files \cup {args.filename}
                 /\ system'.forces = Append(system.forces,
                        [ kind |-> "TorchForce", file |-> args.filename,
                          group |-> args.forceGroup,
                          pbc |-> (topology.box \/ \E k \in 1..Len(system.forces) :
                                                       system.forces[k].pbc) ])
                 /\ error' = None
      ]_vars

\* A failure on the species with a force already in the system.
Wit_C8 ==
    /\ state = "ConfigFailed"
    /\ error = Some("UnknownSpecies")
    /\ Len(system.forces) = 1
    /\ files = {}

\* The other case of C8: a valid configuration, group 3, one force added.
Wit_C8_Configured ==
    /\ state = "Configured"
    /\ Len(system.forces) = 2
    /\ system.forces[2].group = 3
    /\ system.forces[2].pbc

\* The module as MACEForce.__init__ builds it from the configuration.
AsConstructed ==
    LET model == LoadModel(impl)
        zTable == model.atomic_numbers
    IN  MACEForceInit(model,
            to_one_hot(atomic_numbers_to_indices(
                           IncludedAtomicNumbers(topology, args.atoms), zTable),
                       Len(zTable)),
            args.atoms,
            topology.box \/ \E k \in 1..Len(system.forces) :
                               system.forces[k].kind # "TorchForce" /\ system.forces[k].pbc,
            Get(PrecisionDtype(args.precision, model.dtype)),
            ReturnEnergyTypeOf(args))

\* What one forward call on a freshly constructed module leaves and returns.
AfterOneCall(c) ==
    LET Result(self, pos, cell) ==
            LET Finish(np) ==
                    LET Last(dict) ==
                            [ dict |-> dict,
                              energy |-> SelectEnergy(ModelCall(self.model, dict, FALSE),
                                                      self.returnEnergyType) ]
                    IN  Last(UpdateInputDict(self.inputDict, pos, np.out.edgeIndex,
                                             np.out.shifts))
            IN  Finish(GetNeighborPairs(self, pos, cell))
        Start(self) ==
            Result(self,
                   Times(To(SelectPositions(c.positions, self.indices), self.dtype),
                         self.lengthScale),
                   CellOf(self, c.boxvectors))
    IN  Start(AsConstructed)

\* C9: after any sequence of forward calls the construction-time entries are
\* those of construction, and the per-call entries and the returned energy
\* are those of one call with the latest arguments on a fresh module.
Thm_C9_OnlyTheLastCallCounts ==
    state = "Configured" =>
        /\ [Self EXCEPT !.inputDict.positions = None,
                        !.inputDict.edge_index = None,
                        !.inputDict.shifts = None] = AsConstructed
        /\ IsNone(call) => (Self = AsConstructed /\ ret = None /\ ~frame.ran)
        /\ ~IsNone(call) =>
              LET Same(r) ==
                      /\ Self.inputDict = r.dict
                      /\ ret = IF IsNone(r.energy) THEN None
                               ELSE Some(Get(r.energy) * 964853)
              IN  Same(AfterOneCall(Get(call)))

\* A call without a cell on a module whose dictionary would differ had the
\* shifts of a call with a cell been kept.
Wit_C9 ==
    /\ Ran
    /\ IsNone(Get(call).boxvectors)
    /\ NumEdges > 0
    /\ ~IsNone(ret)

\* C10: the pbc flag of the dictionary is the construction-time flag, three
\* equal components; a call takes the lattice branch exactly when it is given
\* a cell and emits zero shifts otherwise, whatever the flag.
Thm_C10_BranchFollowsCellOnly ==
    state = "Configured" =>
        /\ LET p == topology.box
                    \/ \E k \in 1..Len(system.forces) :
                          system.forces[k].kind # "TorchForce" /\ system.forces[k].pbc
           IN  Self.inputDict.pbc = <<p, p, p>>
        /\ frame.ran =>
              /\ (Out.branch = "lattice") <=> ~IsNone(Get(call).boxvectors)
              /\ CellGiven <=> ~IsNone(Get(call).boxvectors)
              /\ ~CellGiven => \A k \in 1..NumEdges : ShiftRows[k] = Zero3
              /\ CellGiven =>
                    /\ Len(Out.shiftsIdx) = NumEdges
                    /\ \A k \in 1..NumEdges :
                          ShiftRows[k] = VSub(VSub(Pos[Src(k) + 1], Pos[Tgt(k) + 1]),
                                              Out.wrappedDeltas[k])

\* A non-periodic module given a cell: the shifts are resolved all the same.
Wit_C10 ==
    /\ Ran
    /\ ~topology.box
    /\ system.forces[1].kind = "TorchForce"
    /\ Self.inputDict.pbc = <<FALSE, FALSE, FALSE>>
    /\ CellGiven
    /\ \E k \in 1..NumEdges : ShiftRows[k] # Zero3

\* The other case of C10: a periodic module given no cell.
Wit_C10_NoCell ==
    /\ Ran
    /\ Self.inputDict.pbc = <<TRUE, TRUE, TRUE>>
    /\ ~CellGiven
    /\ NumEdges > 0

====
